---- MODULE Spec2Model ----
(***************************************************************************)
(* A model of the CKL_PSM password strength meter backend:                 *)
(*   fast_bpe_sim.py    luds (LUDS tokenizer), calc_ml2p (structure        *)
(*                      matcher)                                           *)
(*   monte_carlo_lib.py MonteCarloLib (Monte Carlo rank estimator)         *)
(*   ckl_pcfg.py        check_pwd (orchestrator)                           *)
(*                                                                         *)
(* A string is a sequence of one-character strings.  A Tag is a pair       *)
(* <<class, length>>, a Label or Structure a sequence of Tags.  A cost     *)
(* (negative log2 probability) is an integer here; a position or rank,     *)
(* which the code holds as a float 2^(cost - log2 N), is the exact         *)
(* rational [num, den].  A call that raises is recorded with raised = TRUE *)
(* and its other result fields are then meaningless.                       *)
(***************************************************************************)
EXTENDS Integers, Sequences, FiniteSets, TLC

VARIABLES
    grammars,         \* ckl_pcfg.grammars:   Structure -> cost
    terminals,        \* ckl_pcfg.terminals:  Tag -> (chunk -> cost)
    converted,        \* ckl_pcfg.converted:  Label -> set of Structures
    not_parsed,       \* ckl_pcfg.not_parsed: total length -> set of Structures
    dangerous_chunks, \* ckl_pcfg.dangerous_chunks: set of strings
    loaded,           \* history: the four tables as they were loaded
    minus_log_probs,  \* MonteCarloLib.__minus_log_probs (sorted sample)
    positions,        \* MonteCarloLib.__positions
    gc,               \* MonteCarloLib.__gc: <<>> for None, else <<the list>>
    unwritten,        \* history: <<>>, or <<the list>> of the last batch call
                      \* completed since construction and since the last
                      \* write2 that returned
    constructed,      \* whether monte_carlo is bound to a MonteCarloLib object
    calls,            \* the calls in progress: each caller's position and locals
    ret               \* the last call: its arguments and what it returned

vars == <<grammars, terminals, converted, not_parsed, dangerous_chunks,
          loaded, minus_log_probs, positions, gc, unwritten, constructed, calls,
          ret>>

pcfg_vars == <<grammars, terminals, converted, not_parsed, dangerous_chunks,
               loaded>>

mc_vars == <<minus_log_probs, positions, gc, unwritten>>

-----------------------------------------------------------------------------
(* Bounds and input domains *)

\* Longest password scored.
MaxLen == 2

\* Longest sample list the estimator is built from, for single queries and
\* for batch queries.
MaxSample == 3
MaxBatchSample == 2

\* Longest item sequence given to a batch query.
MaxItems == 2

\* Longest string given to the tokenizer on its own.
MaxLudsLen == 4

\* Longest item sequence a caller sharing the estimator asks about.
MaxExportItems == 1

\* Characters: one upper-case letter, one lower-case letter, one digit, one
\* other.  The tokenizer is given strings of all four; the passwords scored
\* against a model are made of the letter and the digit.
UpperChars == {"A"}
LowerChars == {"a"}
DigitChars == {"1"}
OtherChars == {"!"}
Chars == UpperChars \cup LowerChars \cup DigitChars \cup OtherChars
PasswordChars == LowerChars \cup DigitChars

Passwords == UNION {[1..n -> PasswordChars] : n \in 0..MaxLen}

-----------------------------------------------------------------------------
(* Helpers: Python built-ins the code uses *)

Min(a, b) == IF a <= b THEN a ELSE b
Max(a, b) == IF a >= b THEN a ELSE b
Abs(a) == IF a >= 0 THEN a ELSE -a

\* s[lo:hi] for 0 <= lo <= hi: indices past the end are clipped.
Slice(s, lo, hi) == SubSeq(s, Min(lo, Len(s)) + 1, Min(hi, Len(s)))

\* d.get(k, default)
Get(d, k, default) == IF k \in DOMAIN d THEN d[k] ELSE default

\* The empty dict.
EmptyDict == [k \in {} |-> 0]

RECURSIVE SumLens(_)
\* sum([_len for _, _len in label])
SumLens(struct) ==
    IF struct = <<>> THEN 0 ELSE struct[1][2] + SumLens(Tail(struct))

\* The orders a for loop may enumerate a set in: CPython walks the hash table,
\* and the hash of a tuple of strings changes from process to process.
Orders(S) ==
    {f \in [1..Cardinality(S) -> S] :
        \A i, j \in 1..Cardinality(S) : i # j => f[i] # f[j]}

-----------------------------------------------------------------------------
(* fast_bpe_sim.py *)

isalpha(c) == c \in UpperChars \cup LowerChars
isupper(c) == c \in UpperChars
isdigit(c) == c \in DigitChars

\* Mutant of CharTag: a digit is tagged as an other character.
CharTag_DigitAsOther(c) ==
    IF isalpha(c)
    THEN (IF isupper(c) THEN "U" ELSE "L")
    ELSE "S"

\* The body of luds' loop, lines 18-26: the tag of one character.
CharTag(c) ==
    IF isalpha(c)
    THEN (IF isupper(c) THEN "U" ELSE "L")
    ELSE IF isdigit(c) THEN "D" ELSE "S"

RECURSIVE LudsLoop_NoFinalAppend(_, _, _, _, _, _)
\* Mutant of LudsLoop: line 34, the append of the last run, is missing.
LudsLoop_NoFinalAppend(pwd, i, struct, prev_tag, t_len, cur_tag) ==
    IF i > Len(pwd)
    THEN struct
    ELSE LET tag == CharTag(pwd[i])
         IN IF tag = prev_tag
            THEN LudsLoop_NoFinalAppend(pwd, i + 1, struct, prev_tag,
                                        t_len + 1, tag)
            ELSE LudsLoop_NoFinalAppend(pwd, i + 1,
                                        IF prev_tag # ""
                                        THEN Append(struct, <<prev_tag, t_len>>)
                                        ELSE struct,
                                        tag, 1, tag)

RECURSIVE LudsLoop(_, _, _, _, _, _)
\* luds' loop from character i on, then the append and return after it.
LudsLoop(pwd, i, struct, prev_tag, t_len, cur_tag) ==
    IF i > Len(pwd)
    THEN Append(struct, <<cur_tag, t_len>>)
    ELSE LET tag == CharTag(pwd[i])
         IN IF tag = prev_tag
            THEN LudsLoop(pwd, i + 1, struct, prev_tag, t_len + 1, tag)
            ELSE LudsLoop(pwd, i + 1,
                          IF prev_tag # ""
                          THEN Append(struct, <<prev_tag, t_len>>)
                          ELSE struct,
                          tag, 1, tag)

luds(pwd) == LudsLoop(pwd, 1, <<>>, "", 0, " ")

\* -log2(sys.float_info.min) = -log2(2^-1022)
log_max == 1022

\* Mutant of CandidateStructures: the fallback set is looked up under the
\* number of tags of the label, not under the sum of their lengths.
CandidateStructures_ByTagCount(cv, np, pwd) ==
    LET label == luds(pwd)
        candidate_structures == Get(cv, label, {})
    IN IF Cardinality(candidate_structures) = 0
       THEN candidate_structures \cup Get(np, Len(label), {})
       ELSE candidate_structures

\* Mutant of CandidateStructures: the fallback set is merged in whether or
\* not the label's own set is empty.
CandidateStructures_Merged(cv, np, pwd) ==
    LET label == luds(pwd)
    IN Get(cv, label, {}) \cup Get(np, SumLens(label), {})

\* calc_ml2p lines 52-57: the object candidate_structures names after the
\* update.  It is the set stored in __converted when the label has an entry
\* (dict.get returns the stored object), a fresh set otherwise.
CandidateStructures(cv, np, pwd) ==
    LET label == luds(pwd)
        candidate_structures == Get(cv, label, {})
    IN IF Cardinality(candidate_structures) = 0
       THEN candidate_structures \cup Get(np, SumLens(label), {})
       ELSE candidate_structures

\* __converted after calc_ml2p: set.update on line 57 changes the stored set
\* in place when the label's entry exists and is empty.
ConvertedAfter(cv, np, pwd) ==
    LET label == luds(pwd)
    IN IF label \in DOMAIN cv
       THEN [cv EXCEPT ![label] = CandidateStructures(cv, np, pwd)]
       ELSE cv

\* Mutant of NotParsedAfter: the fallback entry is taken out of the table
\* (pop) when it is read.
NotParsedAfter_Popped(cv, np, pwd) ==
    LET label == luds(pwd)
        length == SumLens(label)
    IN IF Cardinality(Get(cv, label, {})) = 0
       THEN [k \in DOMAIN np \ {length} |-> np[k]]
       ELSE np

\* __not_parsed after calc_ml2p: line 56 reads the fallback set with get and
\* line 57 passes it to update as the argument, whose receiver is the label's
\* set or a new one; the table and its sets are not written.
NotParsedAfter(cv, np, pwd) == np

RECURSIVE TerminalWalk(_, _, _, _, _, _)
\* Lines 66-74 from tag i of the candidate on: [raised, p].  A tag with no
\* entry in terminals gives terminal = None, and `replacement not in None`
\* raises TypeError.
TerminalWalk(tm, pwd, candidate, i, start, p) ==
    IF i > Len(candidate)
    THEN [raised |-> FALSE, p |-> p]
    ELSE LET tag == candidate[i]
             t_len == tag[2]
             terminal == tm[tag]
             replacement == Slice(pwd, start, start + t_len)
         IN IF tag \notin DOMAIN tm
            THEN [raised |-> TRUE, p |-> p]
            ELSE IF replacement \notin DOMAIN terminal
                 THEN [raised |-> FALSE, p |-> log_max]
                 ELSE TerminalWalk(tm, pwd, candidate, i + 1, start + t_len,
                                   p + terminal[replacement])

RECURSIVE CandidateLoop_KeepsAll(_, _, _, _, _, _)
\* Mutant of CandidateLoop: line 75, the test p < log_max, is missing.
CandidateLoop_KeepsAll(gr, tm, pwd, order, i, results) ==
    IF i > Len(order)
    THEN [raised |-> FALSE, results |-> results]
    ELSE LET candidate == order[i]
             p == Get(gr, candidate, log_max)
         IN IF p = log_max
            THEN [raised |-> FALSE, results |-> results]
            ELSE LET w == TerminalWalk(tm, pwd, candidate, 1, 0, p)
                 IN IF w.raised
                    THEN [raised |-> TRUE, results |-> results]
                    ELSE CandidateLoop_KeepsAll(gr, tm, pwd, order, i + 1,
                                                Append(results,
                                                       <<candidate, w.p>>))

RECURSIVE CandidateLoop(_, _, _, _, _, _)
\* Lines 61-76 from the i-th candidate of the enumeration on: [raised, results].
CandidateLoop(gr, tm, pwd, order, i, results) ==
    IF i > Len(order)
    THEN [raised |-> FALSE, results |-> results]
    ELSE LET candidate == order[i]
             p == Get(gr, candidate, log_max)
         IN IF p = log_max
            THEN [raised |-> FALSE, results |-> results]
            ELSE LET w == TerminalWalk(tm, pwd, candidate, 1, 0, p)
                 IN IF w.raised
                    THEN [raised |-> TRUE, results |-> results]
                    ELSE CandidateLoop(gr, tm, pwd, order, i + 1,
                                       IF w.p < log_max
                                       THEN Append(results, <<candidate, w.p>>)
                                       ELSE results)

\* min(results, key=lambda x: x[1]): the first element of least cost.
MinByCost(results) ==
    LET i == CHOOSE k \in 1..Len(results) :
                 /\ \A j \in 1..Len(results) : results[k][2] <= results[j][2]
                 /\ \A j \in 1..(k - 1) : results[j][2] > results[k][2]
    IN results[i]

\* calc_ml2p(__converted, __not_parsed, grammars, terminals, pwd), with
\* `order` the order in which line 61 enumerates candidate_structures:
\* [raised, candidate, cost].
calc_ml2p(cv, np, gr, tm, pwd, order) ==
    LET get_luds == luds(pwd)
    IN IF Len(order) = 0
       THEN [raised |-> FALSE, candidate |-> get_luds, cost |-> log_max]
       ELSE LET loop == CandidateLoop(gr, tm, pwd, order, 1, <<>>)
            IN IF loop.raised
               THEN [raised |-> TRUE, candidate |-> <<>>, cost |-> 0]
               ELSE IF Len(loop.results) = 0
                    THEN [raised |-> FALSE, candidate |-> get_luds,
                          cost |-> log_max]
                    ELSE [raised |-> FALSE,
                          candidate |-> MinByCost(loop.results)[1],
                          cost |-> MinByCost(loop.results)[2]]

-----------------------------------------------------------------------------
(* Rationals: the floats of monte_carlo_lib.py, held exactly *)

Rat(n) == [num |-> n, den |-> 1]
LeQ(a, b) == a.num * b.den <= b.num * a.den
LtQ(a, b) == a.num * b.den < b.num * a.den
EqQ(a, b) == a.num * b.den = b.num * a.den
AddQ(a, b) ==
    IF a.den = b.den
    THEN [num |-> a.num + b.num, den |-> a.den]
    ELSE [num |-> a.num * b.den + b.num * a.den, den |-> a.den * b.den]
\* max(a, b): Python keeps the first argument unless the second is greater.
MaxQ(a, b) == IF LtQ(a, b) THEN b ELSE a
\* math.ceil
Ceil(a) == -((-a.num) \div a.den)
\* int(a): truncation toward zero
IntPart(a) == IF a.num >= 0 THEN a.num \div a.den ELSE -((-a.num) \div a.den)
RECURSIVE Pow2(_)
Pow2(n) == IF n = 0 THEN 1 ELSE 2 * Pow2(n - 1)

-----------------------------------------------------------------------------
(* monte_carlo_lib.py *)

RECURSIVE CumsumLoop_NoCarry(_, _, _, _)
\* Mutant of CumsumLoop: each value is appended as it is, nothing carried.
CumsumLoop_NoCarry(lst, i, acc, cumsum) ==
    IF i > Len(lst)
    THEN cumsum
    ELSE CumsumLoop_NoCarry(lst, i + 1, acc, Append(cumsum, lst[i]))

RECURSIVE CumsumLoop(_, _, _, _)
CumsumLoop(lst, i, acc, cumsum) ==
    IF i > Len(lst)
    THEN cumsum
    ELSE CumsumLoop(lst, i + 1, AddQ(acc, lst[i]),
                    Append(cumsum, AddQ(acc, lst[i])))

my_cumsum(lst) ==
    IF Len(lst) <= 0
    THEN <<>>
    ELSE CumsumLoop(lst, 1, [num |-> 0, den |-> lst[1].den], <<>>)

RECURSIVE InsertFloat(_, _)
\* x put into the sorted list s, after the entries that are <= x.
InsertFloat(s, x) ==
    IF s = <<>> THEN <<x>>
    ELSE IF s[Len(s)] <= x
         THEN Append(s, x)
         ELSE Append(InsertFloat(SubSeq(s, 1, Len(s) - 1), x), s[Len(s)])

\* Mutant of SortFloats: the list is left in the order given.
SortFloats_Unsorted(lst) == lst

RECURSIVE SortFloats(_)
\* list.sort() of a list of floats: ascending.
SortFloats(lst) ==
    IF lst = <<>> THEN <<>>
    ELSE InsertFloat(SortFloats(SubSeq(lst, 1, Len(lst) - 1)), lst[Len(lst)])

RECURSIVE InsertItem(_, _)
\* x put into the list s sorted by cost, after the items whose cost is <= x's.
InsertItem(s, x) ==
    IF s = <<>> THEN <<x>>
    ELSE IF s[Len(s)].mlp <= x.mlp
         THEN Append(s, x)
         ELSE Append(InsertItem(SubSeq(s, 1, Len(s) - 1), x), s[Len(s)])

RECURSIVE SortItems(_)
\* sorted(minus_log_prob_iter, key=lambda x: x[2]): ascending by cost, stable.
SortItems(lst) ==
    IF lst = <<>> THEN <<>>
    ELSE InsertItem(SortItems(SubSeq(lst, 1, Len(lst) - 1)), lst[Len(lst)])

\* 2 ** (mlp - logn) with logn = log2(n)
Weight(mlp, n) == [num |-> Pow2(mlp), den |-> n]

\* Mutant of log2_defined: log2 answers for 0 as well.
log2_defined_Always(n) == TRUE

\* math.log2(n) raises ValueError ("math domain error") unless n > 0.
log2_defined(n) == n > 0

\* MonteCarloLib.__gen_rank_from_minus_log_prob: [raised, minus_log_probs,
\* positions].  Line 37 raises for the empty list.
gen_rank_from_minus_log_prob(minus_log_prob_list) ==
    LET mlps == SortFloats(minus_log_prob_list)
        n == Len(mlps)
    IN IF ~log2_defined(n)
       THEN [raised |-> TRUE, minus_log_probs |-> <<>>, positions |-> <<>>]
       ELSE [raised |-> FALSE, minus_log_probs |-> mlps,
             positions |-> my_cumsum([i \in 1..n |-> Weight(mlps[i], n)])]

\* Mutant of bisect_right: bisect_left, the number of entries < x.
bisect_right_Left(a, x) == Cardinality({i \in 1..Len(a) : a[i] < x})

\* bisect.bisect_right(a, x), a sorted: the number of entries <= x.
bisect_right(a, x) == Cardinality({i \in 1..Len(a) : a[i] <= x})

\* self.__positions[idx - 1] if idx > 0 else 1
PositionOrOne(mlps, pos, mlp) ==
    LET idx == bisect_right(mlps, mlp)
    IN IF idx > 0 THEN pos[idx] ELSE Rat(1)

\* Mutant of ml2p2rank: the `if idx > 0 else 1` guard is missing, and
\* positions[-1] is the last position.
ml2p2rank_NoFloor(mlps, pos, minus_log_prob) ==
    LET idx == bisect_right(mlps, minus_log_prob)
    IN pos[IF idx > 0 THEN idx ELSE Len(pos)]

\* MonteCarloLib.ml2p2rank
ml2p2rank(mlps, pos, minus_log_prob) == PositionOrOne(mlps, pos, minus_log_prob)

RECURSIVE GcLoop(_, _, _, _, _, _, _, _)
\* The loop of ml2p_iter2gc, lines 65-70, from item i on: [raised, gc].
\* cracked / total raises ZeroDivisionError when total is 0.
GcLoop(mlps, pos, items, i, prev_rank, cracked, total, addon) ==
    IF i > Len(items)
    THEN [raised |-> FALSE, gc |-> <<>>]
    ELSE LET item == items[i]
             rank == Ceil(MaxQ(PositionOrOne(mlps, pos, item.mlp),
                               Rat(prev_rank + addon)))
             cracked2 == cracked + item.appearance
         IN IF total = 0
            THEN [raised |-> TRUE, gc |-> <<>>]
            ELSE LET rest == GcLoop(mlps, pos, items, i + 1, rank, cracked2,
                                    total, addon)
                 IN [raised |-> rest.raised,
                     gc |-> <<[pwd |-> item.pwd, mlp |-> item.mlp,
                               appearance |-> item.appearance, rank |-> rank,
                               cracked |-> cracked2,
                               ratio |-> [num |-> cracked2 * 100,
                                          den |-> total]]>> \o rest.gc]

RECURSIVE SumAppearance(_)
\* sum([a for _, a, _ in minus_log_prob_iter])
SumAppearance(items) ==
    IF items = <<>> THEN 0
    ELSE items[1].appearance + SumAppearance(Tail(items))

\* Mutant of Addon: add1 is ignored.
Addon_Ignored(add1) == 0

\* Mutant of Addon: the increment is made whatever add1 is.
Addon_Always(add1) == 1

\* add1's increment, line 64.
Addon(add1) == IF add1 THEN 1 ELSE 0

\* MonteCarloLib.ml2p_iter2gc up to its loop's end: [raised, gc].
ml2p_iter2gc(mlps, pos, minus_log_prob_iter, need_resort, add1) ==
    LET items == IF need_resort
                 THEN SortItems(minus_log_prob_iter)
                 ELSE minus_log_prob_iter
    IN GcLoop(mlps, pos, items, 1, 0, 0, SumAppearance(items), Addon(add1))

\* Mutant of equals: no two values are taken for equal.
equals_Never(num1, num2) == FALSE

\* equals(num1, num2) with the default delta = 0.00000001
equals(num1, num2) == Abs(num1 - num2) * 100000000 < 1

\* Mutant of NextPosition: the previous position is not stepped over.
NextPosition_NoStep(position, prev_position) ==
    Max(IntPart(position), prev_position)

\* to_dict line 94: max(int(self.__positions[i]), prev_position+1)
NextPosition(position, prev_position) ==
    Max(IntPart(position), prev_position + 1)

RECURSIVE ToDictLoop(_, _, _, _, _)
\* The loop of to_dict, lines 89-98, from index i on: the entries appended
\* to positions and probs, as <<position, prob>> pairs.
ToDictLoop(mlps, pos, i, prev_position, prev_value) ==
    IF i > Len(pos)
    THEN <<>>
    ELSE IF equals(prev_value, mlps[i])
         THEN ToDictLoop(mlps, pos, i + 1, prev_position, prev_value)
         ELSE LET p == NextPosition(pos[i], prev_position)
              IN <<(<<p, mlps[i]>>)>>
                   \o ToDictLoop(mlps, pos, i + 1, p, mlps[i])

\* MonteCarloLib.to_dict.  It does not read __gc.
to_dict(mlps, pos) ==
    LET kept == ToDictLoop(mlps, pos, 1, 0, -1)
    IN [positions |-> [i \in 1..Len(kept) |-> kept[i][1]],
        probs |-> [i \in 1..Len(kept) |-> kept[i][2]]]

\* round(num / den) to the nearest integer, halves to the even one: the
\* rounding of a float format specification.
RoundHalfEven(num, den) ==
    LET q == num \div den
        r == num % den
    IN IF 2 * r < den THEN q
       ELSE IF 2 * r > den THEN q + 1
       ELSE IF q % 2 = 0 THEN q ELSE q + 1

\* One line of write2, line 80, as its tab-separated fields: mlp in units of
\* 0.00000001 (":.8f"), cracked_ratio in units of 0.01 (":5.2f").
FormatLine(entry) ==
    [pwd |-> entry.pwd,
     mlp |-> entry.mlp * 100000000,
     appearance |-> entry.appearance,
     rank |-> entry.rank,
     cracked |-> entry.cracked,
     cracked_ratio |-> RoundHalfEven(entry.ratio.num * 100, entry.ratio.den)]

\* The lines write2's loop writes for the list stored in __gc.
FormatLines(list) == [i \in 1..Len(list) |-> FormatLine(list[i])]

\* Mutant of write2: line 81, self.__gc = None, is missing.
write2_KeepsSlot(stored, writable) ==
    IF ~writable
    THEN [raised |-> TRUE, lines |-> <<>>, gc |-> stored]
    ELSE IF stored = <<>>
         THEN [raised |-> TRUE, lines |-> <<>>, gc |-> stored]
         ELSE [raised |-> FALSE, lines |-> FormatLines(stored[1]),
               gc |-> stored]

\* Mutant of write2: the stream that is not writable costs the stored list.
write2_DropsOnError(stored, writable) ==
    IF ~writable
    THEN [raised |-> TRUE, lines |-> <<>>, gc |-> <<>>]
    ELSE IF stored = <<>>
         THEN [raised |-> TRUE, lines |-> <<>>, gc |-> stored]
         ELSE [raised |-> FALSE, lines |-> FormatLines(stored[1]), gc |-> <<>>]

\* MonteCarloLib.write2(fd), given __gc: [raised, lines, gc], gc the value of
\* __gc after the call.
write2(stored, writable) ==
    IF ~writable
    THEN [raised |-> TRUE, lines |-> <<>>, gc |-> stored]
    ELSE IF stored = <<>>
         THEN [raised |-> TRUE, lines |-> <<>>, gc |-> stored]
         ELSE [raised |-> FALSE, lines |-> FormatLines(stored[1]), gc |-> <<>>]

-----------------------------------------------------------------------------
(* ckl_pcfg.py *)

RECURSIVE ChunkLoop_NoAdvance(_, _, _, _)
\* Mutant of ChunkLoop: line 34, prev += l, is missing.
ChunkLoop_NoAdvance(dc, pwd, struct, prev) ==
    IF struct = <<>>
    THEN <<>>
    ELSE LET l == struct[1][2]
             sc == Slice(pwd, prev, prev + l)
         IN <<(<<sc, sc \in dc>>)>>
              \o ChunkLoop_NoAdvance(dc, pwd, Tail(struct), prev)

RECURSIVE ChunkLoop(_, _, _, _)
\* check_pwd lines 31-39 from tag i of struct on: the (chunk, dangerous) pairs.
ChunkLoop(dc, pwd, struct, prev) ==
    IF struct = <<>>
    THEN <<>>
    ELSE LET l == struct[1][2]
             sc == Slice(pwd, prev, prev + l)
         IN <<(<<sc, sc \in dc>>)>> \o ChunkLoop(dc, pwd, Tail(struct), prev + l)

\* check_pwd(pwd), given what its call of calc_ml2p returned.  The "prob"
\* entry of the result, 2 ** -prob, is for display and is left out.
check_pwd(dc, mlps, pos, pwd, scored) ==
    IF scored.raised
    THEN [raised |-> TRUE, guess_number |-> Rat(0), segments |-> <<>>,
          chunks |-> <<>>, cost |-> 0]
    ELSE [raised |-> FALSE,
          guess_number |-> ml2p2rank(mlps, pos, scored.cost),
          segments |-> scored.candidate,
          chunks |-> ChunkLoop(dc, pwd, scored.candidate, 0),
          cost |-> scored.cost]

-----------------------------------------------------------------------------
(* The models the server is started with *)

\* Tags and structures the tables are built from.
TagPool == {<<"L", 1>>, <<"L", 2>>}

StructPool ==
    {s \in {<<t>> : t \in TagPool} \cup {<<t, u>> : t, u \in TagPool} :
        SumLens(s) <= MaxLen}

TagsOf(structs) == UNION {{s[i] : i \in 1..Len(s)} : s \in structs}

\* Costs a structure has in grammars, and costs a chunk has in terminals.
GrammarCosts == {1, 2}
ChunkCosts == {1}

ClassChars(class) == IF class = "L" THEN LowerChars ELSE DigitChars

\* The chunks a tag's terminal table holds: strings of its length and class.
ChunkPool(tag) == {[i \in 1..tag[2] |-> c] : c \in ClassChars(tag[1])}

\* The terminal tables with an entry for each tag of T.
TerminalTables(T) ==
    {tm \in [T -> UNION {[ChunkPool(t) -> ChunkCosts] : t \in T}] :
        \A t \in T : DOMAIN tm[t] = ChunkPool(t)}

\* Sets of at most two structures of one total length.
CandidateSets ==
    {{c1, c2} : <<c1, c2>> \in {p \in StructPool \X StructPool :
                                   SumLens(p[1]) = SumLens(p[2])}}

\* monte_carlo_sample.pickle as the scoring server loads it.
ServingSamples == {<<1, 3, 5, 7>>}

\* dangerous_chunks.pickle
DangerousChunks == {<<"a">>, <<"1", "1">>}

\* MonteCarloLib.__init__: whether it raised, and the object's fields after
\* construction.
MonteCarloLib(minus_log_prob_list) ==
    LET r == gen_rank_from_minus_log_prob(SortFloats(minus_log_prob_list))
    IN [raised |-> r.raised, minus_log_probs |-> r.minus_log_probs,
        positions |-> r.positions, gc |-> <<>>]

NoCall == [op |-> "none"]

\* ckl_pcfg.py lines 9-13: the tables and the estimator, loaded at import.
\* Every candidate set holds structures of one total length, filed under a
\* label or a length of that total; a terminal table holds chunks of its tag's
\* length.  A structure may be missing from grammars, a tag from terminals,
\* and a label's entry in converted may be empty.
Init ==
    \E cands \in CandidateSets :
      \E G \in SUBSET cands, T \in SUBSET TagsOf(cands),
         sample \in ServingSamples :
        \E gr \in [G -> GrammarCosts],
           tm \in TerminalTables(T),
           cv \in {EmptyDict} \cup
                  {key :> S : key \in cands, S \in SUBSET cands},
           np \in {EmptyDict} \cup
                  {SumLens(c) :> cands : c \in cands} :
          /\ grammars = gr
          /\ terminals = tm
          /\ converted = cv
          /\ not_parsed = np
          /\ dangerous_chunks = DangerousChunks
          /\ loaded = [grammars |-> gr,
                       terminals |-> tm,
                       converted |-> cv, not_parsed |-> np]
          /\ minus_log_probs = MonteCarloLib(sample).minus_log_probs
          /\ positions = MonteCarloLib(sample).positions
          /\ gc = MonteCarloLib(sample).gc
          /\ unwritten = <<>>
          /\ constructed = TRUE
          /\ calls = EmptyDict
          /\ ret = NoCall

\* check_pwd(pwd): one scoring request.  calc_ml2p's update of the candidate
\* set is part of the call, whether or not the call then raises.
CheckPwd(pwd) ==
    \E order \in Orders(CandidateStructures(converted, not_parsed, pwd)) :
      LET scored == calc_ml2p(converted, not_parsed, grammars, terminals,
                              pwd, order)
          r == check_pwd(dangerous_chunks, minus_log_probs, positions, pwd,
                         scored)
      IN /\ converted' = ConvertedAfter(converted, not_parsed, pwd)
         /\ not_parsed' = NotParsedAfter(converted, not_parsed, pwd)
         /\ ret' = [op |-> "check_pwd", pwd |-> pwd,
                    raised |-> r.raised, guess_number |-> r.guess_number,
                    segments |-> r.segments, chunks |-> r.chunks,
                    cost |-> r.cost]
         /\ UNCHANGED <<grammars, terminals, dangerous_chunks, loaded,
                        mc_vars, constructed, calls>>

Next == \E pwd \in Passwords : CheckPwd(pwd)

Spec == Init /\ [][Next]_vars

-----------------------------------------------------------------------------
(* Models whose grammar costs lie at and around log_max *)

SentinelCosts == {1, log_max - 1, log_max, log_max + 1}

\* The tables of ckl_pcfg.py lines 9-13 with such costs; terminals has every
\* tag of the candidates.
InitSentinel ==
    \E cands \in CandidateSets, sample \in ServingSamples :
      \E G \in SUBSET cands :
        \E gr \in [G -> SentinelCosts],
           tm \in TerminalTables(TagsOf(cands)),
           cv \in {EmptyDict} \cup {key :> cands : key \in cands},
           np \in {EmptyDict} \cup {SumLens(c) :> cands : c \in cands} :
          /\ grammars = gr
          /\ terminals = tm
          /\ converted = cv
          /\ not_parsed = np
          /\ dangerous_chunks = DangerousChunks
          /\ loaded = [grammars |-> gr, terminals |-> tm,
                       converted |-> cv, not_parsed |-> np]
          /\ minus_log_probs = MonteCarloLib(sample).minus_log_probs
          /\ positions = MonteCarloLib(sample).positions
          /\ gc = MonteCarloLib(sample).gc
          /\ unwritten = <<>>
          /\ constructed = TRUE
          /\ calls = EmptyDict
          /\ ret = NoCall

NextSentinel == \E pwd \in Passwords : CheckPwd(pwd)

SpecSentinel == InitSentinel /\ [][NextSentinel]_vars

-----------------------------------------------------------------------------
(* The rank estimator on its own *)

\* Costs of sample entries and costs asked about.
SampleCosts == {0, 1, 2}
QueryCosts == {0, 1, 2, 3}

\* The lists an estimator is built from, in any order.
Samples == UNION {[1..n -> SampleCosts] : n \in 1..MaxSample}

\* The lists the estimators answering batch queries are built from: the
\* constructor sorts its list, so these are given in ascending order.
BatchSamples ==
    {s \in UNION {[1..n -> SampleCosts] : n \in 1..MaxBatchSample} :
        s = SortFloats(s)}

\* What a batch item carries, <<appearance, mlp>>: seen once at a low cost,
\* seen once at a high cost, never seen.
ItemOptions == {<<1, 0>>, <<1, 2>>, <<0, 2>>}

\* Batch inputs: item i carries i as its id.
ItemLists ==
    UNION {{[i \in 1..n |->
               [pwd |-> i, appearance |-> f[i][1], mlp |-> f[i][2]]] :
             f \in [1..n -> ItemOptions]} : n \in 0..MaxItems}

\* An estimator built by MonteCarloLib(minus_log_prob_list) from the list
\* `sample`; no scoring tables are loaded.
Estimator(sample) ==
    /\ grammars = EmptyDict
    /\ terminals = EmptyDict
    /\ converted = EmptyDict
    /\ not_parsed = EmptyDict
    /\ dangerous_chunks = {}
    /\ loaded = [minus_log_prob_list |-> sample]
    /\ minus_log_probs = MonteCarloLib(sample).minus_log_probs
    /\ positions = MonteCarloLib(sample).positions
    /\ gc = MonteCarloLib(sample).gc
    /\ unwritten = <<>>
    /\ constructed = TRUE
    /\ calls = EmptyDict
    /\ ret = NoCall

InitRank == \E sample \in Samples : Estimator(sample)

InitBatch == \E sample \in BatchSamples : Estimator(sample)

\* monte_carlo.ml2p2rank(minus_log_prob)
Ml2p2rank(minus_log_prob) ==
    /\ constructed
    /\ ret' = [op |-> "ml2p2rank", minus_log_prob |-> minus_log_prob,
               rank |-> ml2p2rank(minus_log_probs, positions, minus_log_prob)]
    /\ UNCHANGED <<pcfg_vars, mc_vars, constructed, calls>>

\* monte_carlo.ml2p_iter2gc(items, need_resort, add1): the list is stored in
\* __gc and returned, unless the loop raised.  A record of the list carries
\* its item's id, cost and count, so ret keeps the flags and the list only.
Ml2pIter2gc(items, need_resort, add1) ==
    LET r == ml2p_iter2gc(minus_log_probs, positions, items, need_resort, add1)
    IN /\ constructed
       /\ gc' = IF r.raised THEN gc ELSE <<r.gc>>
       /\ unwritten' = IF r.raised THEN unwritten ELSE <<r.gc>>
       /\ ret' = [op |-> "ml2p_iter2gc", need_resort |-> need_resort,
                  add1 |-> add1, raised |-> r.raised, gc |-> r.gc]
       /\ UNCHANGED <<pcfg_vars, minus_log_probs, positions, constructed,
                      calls>>

\* monte_carlo.to_dict()
ToDict ==
    LET r == to_dict(minus_log_probs, positions)
    IN /\ constructed
       /\ ret' = [op |-> "to_dict", raised |-> FALSE,
                  positions |-> r.positions, probs |-> r.probs]
       /\ UNCHANGED <<pcfg_vars, mc_vars, constructed, calls>>

NextRank ==
    \/ \E x \in QueryCosts : Ml2p2rank(x)
    \/ ToDict

NextBatch ==
    \E items \in ItemLists, need_resort \in BOOLEAN, add1 \in BOOLEAN :
      Ml2pIter2gc(items, need_resort, add1)

SpecRank == InitRank /\ [][NextRank]_vars

\* The process before monte_carlo is bound: no estimator object yet.
InitLoad ==
    /\ grammars = EmptyDict
    /\ terminals = EmptyDict
    /\ converted = EmptyDict
    /\ not_parsed = EmptyDict
    /\ dangerous_chunks = {}
    /\ loaded = [minus_log_prob_list |-> <<>>]
    /\ minus_log_probs = <<>>
    /\ positions = <<>>
    /\ gc = <<>>
    /\ unwritten = <<>>
    /\ constructed = FALSE
    /\ calls = EmptyDict
    /\ ret = NoCall

\* monte_carlo = MonteCarloLib(minus_log_prob_list): when __init__ raises, no
\* object comes to exist and the name stays unbound.
Construct(minus_log_prob_list) ==
    LET r == MonteCarloLib(minus_log_prob_list)
    IN /\ ~constructed
       /\ constructed' = ~r.raised
       /\ loaded' = [minus_log_prob_list |-> minus_log_prob_list]
       /\ minus_log_probs' = r.minus_log_probs
       /\ positions' = r.positions
       /\ gc' = r.gc
       /\ unwritten' = <<>>
       /\ ret' = [op |-> "MonteCarloLib", raised |-> r.raised]
       /\ UNCHANGED <<grammars, terminals, converted, not_parsed,
                      dangerous_chunks, calls>>

NextLoad ==
    \/ \E sample \in Samples \cup {<<>>} : Construct(sample)
    \/ \E x \in QueryCosts : Ml2p2rank(x)
    \/ ToDict

SpecLoad == InitLoad /\ [][NextLoad]_vars

SpecBatch == InitBatch /\ [][NextBatch]_vars

-----------------------------------------------------------------------------
(* One estimator shared by two callers that compute a batch and export it *)

Callers == {"A", "B"}

\* The item lists the callers ask about.
ExportItemLists == {items \in ItemLists : Len(items) <= MaxExportItems}

InitExport ==
    \E sample \in ServingSamples :
      /\ grammars = EmptyDict
      /\ terminals = EmptyDict
      /\ converted = EmptyDict
      /\ not_parsed = EmptyDict
      /\ dangerous_chunks = {}
      /\ loaded = [minus_log_prob_list |-> sample]
      /\ minus_log_probs = MonteCarloLib(sample).minus_log_probs
      /\ positions = MonteCarloLib(sample).positions
      /\ gc = MonteCarloLib(sample).gc
      /\ unwritten = <<>>
      /\ constructed = TRUE
      /\ calls = [c \in Callers |-> [pc |-> "idle"]]
      /\ ret = NoCall

\* Caller c runs gc = monte_carlo.ml2p_iter2gc(items) and keeps what it
\* returned; a call that raises leaves the caller where it was.
BatchCall(c, items) ==
    LET r == ml2p_iter2gc(minus_log_probs, positions, items, FALSE, TRUE)
    IN /\ calls[c].pc = "idle"
       /\ gc' = IF r.raised THEN gc ELSE <<r.gc>>
       /\ unwritten' = IF r.raised THEN unwritten ELSE <<r.gc>>
       /\ calls' = IF r.raised THEN calls
                   ELSE [calls EXCEPT ![c] = [pc |-> "batched", gc |-> r.gc]]
       /\ UNCHANGED <<pcfg_vars, minus_log_probs, positions, constructed, ret>>

\* Caller c, its batch computed, runs monte_carlo.write2(fd).
Write2Call(c, writable) ==
    LET r == write2(gc, writable)
    IN /\ calls[c].pc = "batched"
       /\ gc' = r.gc
       /\ unwritten' = IF r.raised THEN unwritten ELSE <<>>
       /\ calls' = [calls EXCEPT ![c] = [pc |-> "exported",
                                         gc |-> calls[c].gc,
                                         writable |-> writable,
                                         raised |-> r.raised,
                                         lines |-> r.lines]]
       /\ UNCHANGED <<pcfg_vars, minus_log_probs, positions, constructed, ret>>

\* Caller c is done with its export and may start over.
ExportDone(c) ==
    /\ calls[c].pc = "exported"
    /\ calls' = [calls EXCEPT ![c] = [pc |-> "idle"]]
    /\ UNCHANGED <<pcfg_vars, mc_vars, constructed, ret>>

NextExport ==
    \E c \in Callers :
      \/ \E items \in ExportItemLists : BatchCall(c, items)
      \/ \E writable \in BOOLEAN : Write2Call(c, writable)
      \/ ExportDone(c)

SpecExport == InitExport /\ [][NextExport]_vars

-----------------------------------------------------------------------------
(* One caller that computes batches and exports them, call after call *)

\* monte_carlo.write2(fd), fd.writable() being `writable`.
Write2(writable) ==
    LET r == write2(gc, writable)
    IN /\ constructed
       /\ gc' = r.gc
       /\ unwritten' = IF r.raised THEN unwritten ELSE <<>>
       /\ ret' = [op |-> "write2", writable |-> writable,
                  raised |-> r.raised, lines |-> r.lines]
       /\ UNCHANGED <<pcfg_vars, minus_log_probs, positions, constructed,
                      calls>>

NextWrite ==
    \/ \E items \in ExportItemLists, need_resort \in BOOLEAN,
          add1 \in BOOLEAN : Ml2pIter2gc(items, need_resort, add1)
    \/ \E writable \in BOOLEAN : Write2(writable)

SpecWrite == InitBatch /\ [][NextWrite]_vars

-----------------------------------------------------------------------------
(* One Model shared by two threads that call check_pwd *)

\* A thread runs calc_ml2p in four steps: the lookup and test of lines 49-54,
\* the merge of lines 55-59, one turn of the loop of lines 61-76 at a time,
\* and lines 77-83 with the rest of check_pwd.  The interpreter may switch
\* threads between any two of them.

\* The structures NotParsed holds for passwords of length MaxLen, and the
\* passwords the threads ask about.
SharedPool ==
    {<<(<<"D", MaxLen>>)>>, <<(<<"L", 1>>), <<"D", MaxLen - 1>>>>,
     <<(<<"L", 1>>), <<"L", MaxLen - 1>>>>}
SharedPasswords == {pwd \in Passwords : Len(pwd) = MaxLen /\ pwd[1] = "a"}

\* The orders in which a loop may come to visit entries of S, all or some.
SubOrders(S) == UNION {Orders(T) : T \in SUBSET S}

\* CPython's set.update(other) rebuilds the hash table of the set before it
\* inserts, when (fill + len(other)) * 5 >= mask * 3; mask is 7 for a set that
\* never held more than four entries.  An iterator over the set keeps its
\* slot index across the rebuild.
SetMask == 7
TableRebuilt(so, other) ==
    other # {} /\ (Cardinality(so) + Cardinality(other)) * 5 >= SetMask * 3

OtherCaller(c) == CHOOSE d \in Callers : d # c

InitShared ==
    \E N \in SUBSET SharedPool, sample \in ServingSamples :
      \E gr \in [N -> ChunkCosts],
         tm \in TerminalTables(TagsOf(SharedPool)),
         cv \in {EmptyDict} \cup {luds(pwd) :> {} : pwd \in SharedPasswords},
         np \in {EmptyDict, MaxLen :> N} :
        /\ grammars = gr
        /\ terminals = tm
        /\ converted = cv
        /\ not_parsed = np
        /\ dangerous_chunks = DangerousChunks
        /\ loaded = [grammars |-> gr, terminals |-> tm,
                     converted |-> cv, not_parsed |-> np]
        /\ minus_log_probs = MonteCarloLib(sample).minus_log_probs
        /\ positions = MonteCarloLib(sample).positions
        /\ gc = MonteCarloLib(sample).gc
        /\ unwritten = <<>>
        /\ constructed = TRUE
        /\ calls = [c \in Callers |-> [pc |-> "idle"]]
        /\ ret = NoCall

\* Lines 49-54: candidate_structures is the set stored under the label, or a
\* new empty set; a non-empty one goes to the loop.
Lookup(c, pwd) ==
    LET label == luds(pwd)
        candidate_structures == Get(converted, label, {})
    IN /\ calls[c].pc = "idle"
       /\ IF Cardinality(candidate_structures) = 0
          THEN calls' = [calls EXCEPT ![c] =
                           [pc |-> "line55", pwd |-> pwd,
                            stored |-> label \in DOMAIN converted]]
          ELSE \E order \in Orders(candidate_structures) :
                 calls' = [calls EXCEPT ![c] =
                             [pc |-> "loop", pwd |-> pwd, todo |-> order,
                              results |-> <<>>]]
       /\ UNCHANGED <<pcfg_vars, mc_vars, constructed, ret>>

\* Lines 55-59: the update, in place when the set is the stored one.  The
\* other thread, if its loop is over that set and the table is rebuilt, goes on
\* from its slot index in the new table: over some entries in some order.
Merge(c) ==
    LET pwd == calls[c].pwd
        label == luds(pwd)
        so == IF calls[c].stored THEN converted[label] ELSE {}
        addon_candidate_structures == Get(not_parsed, SumLens(label), {})
        candidate_structures == so \cup addon_candidate_structures
        d == OtherCaller(c)
        disturbed == /\ calls[c].stored
                     /\ calls[d].pc = "loop"
                     /\ luds(calls[d].pwd) = label
                     /\ TableRebuilt(so, addon_candidate_structures)
    IN /\ calls[c].pc = "line55"
       /\ converted' = IF calls[c].stored
                       THEN [converted EXCEPT ![label] = candidate_structures]
                       ELSE converted
       /\ \E order \in Orders(candidate_structures),
             rest \in IF disturbed THEN SubOrders(candidate_structures)
                                   ELSE {<<>>} :
            calls' = [calls EXCEPT
                        ![c] = IF Cardinality(candidate_structures) = 0
                               THEN [pc |-> "done", pwd |-> pwd,
                                     raised |-> FALSE, candidate |-> label,
                                     cost |-> log_max]
                               ELSE [pc |-> "loop", pwd |-> pwd,
                                     todo |-> order, results |-> <<>>],
                        ![d] = IF disturbed THEN [@ EXCEPT !.todo = rest]
                               ELSE @]
       /\ UNCHANGED <<grammars, terminals, not_parsed, dangerous_chunks,
                      loaded, mc_vars, constructed, ret>>

\* What calc_ml2p returns for the results gathered, lines 77-83.
Selected(pwd, results) ==
    IF Len(results) = 0
    THEN [pc |-> "done", pwd |-> pwd, raised |-> FALSE,
          candidate |-> luds(pwd), cost |-> log_max]
    ELSE [pc |-> "done", pwd |-> pwd, raised |-> FALSE,
          candidate |-> MinByCost(results)[1], cost |-> MinByCost(results)[2]]

\* One turn of the loop of lines 61-76, or its end and lines 77-83.
Iterate(c) ==
    LET pwd == calls[c].pwd
        todo == calls[c].todo
        candidate == todo[1]
        p == Get(grammars, candidate, log_max)
        w == TerminalWalk(terminals, pwd, candidate, 1, 0, p)
    IN /\ calls[c].pc = "loop"
       /\ calls' = [calls EXCEPT ![c] =
            IF todo = <<>> THEN Selected(pwd, calls[c].results)
            ELSE IF p = log_max THEN Selected(pwd, calls[c].results)
            ELSE IF w.raised
                 THEN [pc |-> "done", pwd |-> pwd, raised |-> TRUE,
                       candidate |-> <<>>, cost |-> 0]
                 ELSE [@ EXCEPT !.todo = Tail(todo),
                                !.results = IF w.p < log_max
                                            THEN Append(@, <<candidate, w.p>>)
                                            ELSE @]]
       /\ UNCHANGED <<pcfg_vars, mc_vars, constructed, ret>>

\* check_pwd returns to the thread's caller.
Return(c) ==
    /\ calls[c].pc = "done"
    /\ calls' = [calls EXCEPT ![c] = [pc |-> "idle"]]
    /\ UNCHANGED <<pcfg_vars, mc_vars, constructed, ret>>

NextShared ==
    \E c \in Callers :
      \/ \E pwd \in SharedPasswords : Lookup(c, pwd)
      \/ Merge(c)
      \/ Iterate(c)
      \/ Return(c)

SpecShared == InitShared /\ [][NextShared]_vars

-----------------------------------------------------------------------------
(* The tokenizer on its own *)

LudsInputs == UNION {[1..n -> Chars] : n \in 0..MaxLudsLen}

InitLuds == \E sample \in ServingSamples : Estimator(sample)

\* luds(pwd)
Luds(pwd) ==
    /\ ret' = [op |-> "luds", pwd |-> pwd, label |-> luds(pwd)]
    /\ UNCHANGED <<pcfg_vars, mc_vars, constructed, calls>>

NextLuds == \E pwd \in LudsInputs : Luds(pwd)

SpecLuds == InitLuds /\ [][NextLuds]_vars

-----------------------------------------------------------------------------
(* Claims *)

Scored == ret.op = "check_pwd"
Returned == ret.op = "check_pwd" /\ ~ret.raised

\* Where tag i of structure c starts in the password.
Offset(c, i) == SumLens(SubSeq(c, 1, i - 1))

\* Structure c is in grammars and every chunk it cuts pwd into is in terminals.
FullyMatches(c, pwd) ==
    /\ c \in DOMAIN grammars
    /\ \A i \in 1..Len(c) :
         /\ c[i] \in DOMAIN terminals
         /\ Slice(pwd, Offset(c, i), Offset(c, i) + c[i][2])
              \in DOMAIN terminals[c[i]]

RECURSIVE ConcatChunks(_)
\* The chunk strings of check_pwd's "chunks", joined in order.
ConcatChunks(chunks) ==
    IF chunks = <<>> THEN <<>> ELSE chunks[1][1] \o ConcatChunks(Tail(chunks))

\* C1: the structure matcher never raises: every scoring call returns a
\* (structure, cost) pair, also when terminals has no entry for a tag of a
\* candidate structure.
C1_NeverRaises == Scored => ~ret.raised

\* C2: after any sequence of scoring calls every table of the model equals
\* its value at load time; in particular an empty Converted[label] is still
\* empty after the fallback candidates were merged.
C2_TablesAsLoaded ==
    /\ converted = loaded.converted
    /\ not_parsed = loaded.not_parsed
    /\ grammars = loaded.grammars
    /\ terminals = loaded.terminals

\* C3: the single rank query is monotone: the rank returned for a cost x is
\* at most the rank of every cost y >= x.
C3_RankMonotone ==
    ret.op = "ml2p2rank" =>
      \A y \in QueryCosts :
        ret.minus_log_prob <= y =>
          LeQ(ret.rank, ml2p2rank(minus_log_probs, positions, y))

\* C4: the guess number evaluate returns, the rank of the password's cost,
\* is never below 1.
C4_GuessNumberAtLeastOne == Returned => LeQ(Rat(1), ret.guess_number)

\* C5, as claimed: for every cost x <= min(sample), x = min(sample) included,
\* rank(x) = 1.
C5_FloorAtOrBelowMin ==
    (ret.op = "ml2p2rank" /\ ret.minus_log_prob <= minus_log_probs[1])
      => EqQ(ret.rank, Rat(1))

\* C5, amended: for every cost x strictly below min(sample), rank(x) = 1.
C5_FloorBelowMin ==
    (ret.op = "ml2p2rank" /\ ret.minus_log_prob < minus_log_probs[1])
      => EqQ(ret.rank, Rat(1))

C5_Witness ==
    /\ ret.op = "ml2p2rank"
    /\ ret.minus_log_prob < minus_log_probs[1]
    /\ LtQ(positions[1], Rat(1))

\* C6: with add1 (strictly_increasing) set, each rank a batch query returns
\* is strictly greater than the rank of the item before it, also when the
\* items share one cost.
C6_BatchStrict ==
    (ret.op = "ml2p_iter2gc" /\ ret.add1 /\ ~ret.raised) =>
      \A i \in 2..Len(ret.gc) : ret.gc[i].rank > ret.gc[i - 1].rank

C6_Witness ==
    /\ ret.op = "ml2p_iter2gc" /\ ret.add1 /\ ~ret.raised
    /\ Len(ret.gc) = MaxItems
    /\ \A i \in 1..Len(ret.gc) : ret.gc[i].mlp = ret.gc[1].mlp

\* C7: for a label absent from Converted whose total length is a key of
\* NotParsed, score returns a cost other than SENTINEL whenever some NotParsed
\* candidate fully matches, whatever else the set holds, and SENTINEL
\* otherwise.  (That the call returns at all is C1.)
C7_FallbackCorrect ==
    (/\ Returned
     /\ luds(ret.pwd) \notin DOMAIN converted
     /\ Len(ret.pwd) \in DOMAIN not_parsed) =>
      (ret.cost # log_max <=>
         \E c \in not_parsed[Len(ret.pwd)] : FullyMatches(c, ret.pwd))

\* C8: the chunk strings evaluate returns, joined in order, are the password.
C8_ChunksConcat == Returned => ConcatChunks(ret.chunks) = ret.pwd

C8_Witness ==
    /\ Returned
    /\ Len(ret.chunks) > 1
    /\ ret.segments # luds(ret.pwd)

\* C9: the run lengths of the structure score returns, reported as segments,
\* sum to the password's length.
C9_SegmentsCover == Returned => SumLens(ret.segments) = Len(ret.pwd)

C9_Witness ==
    /\ Returned
    /\ luds(ret.pwd) \notin DOMAIN converted
    /\ ret.segments # luds(ret.pwd)
    /\ ret.cost < log_max

\* C10: the run lengths of the Label luds produces sum to the input's length.
C10_LabelCovers == ret.op = "luds" => SumLens(ret.label) = Len(ret.pwd)

C10_Witness ==
    /\ ret.op = "luds"
    /\ Len(ret.label) > 1
    /\ \E i \in 1..Len(ret.label) : ret.label[i][2] > 1

\* C11: luds applied to the empty string yields the empty Label, a sequence
\* with no Tags.
C11_EmptyLabel == (ret.op = "luds" /\ ret.pwd = <<>>) => ret.label = <<>>

\* C12: to_dict called before any ml2p_iter2gc has produced a result (__gc is
\* None) fails with an error and returns no data.
C12_ExportNeedsBatch == (ret.op = "to_dict" /\ gc = <<>>) => ret.raised
 /\ unwritten = <<>>

\* C15: the positions to_dict returns are integers, strictly increasing from
\* one entry to the next, the first at least 1, and as many as the probs.
C15_PositionsStrict ==
    ret.op = "to_dict" =>
      /\ Len(ret.positions) = Len(ret.probs)
      /\ \A i \in 1..Len(ret.positions) : ret.positions[i] \in Int
      /\ Len(ret.positions) > 0 => ret.positions[1] >= 1
      /\ \A i \in 2..Len(ret.positions) :
           ret.positions[i] > ret.positions[i - 1]

\* A kept entry, not the first, whose position has an integer part no greater
\* than the position emitted before it, so that only the step separates them.
C15_Witness ==
    /\ ret.op = "to_dict"
    /\ \E k \in 2..Len(ret.positions), i \in 2..Len(positions) :
         /\ ret.probs[k] = minus_log_probs[i]
         /\ minus_log_probs[i - 1] # minus_log_probs[i]
         /\ IntPart(positions[i]) <= ret.positions[k - 1]

\* C13: with two callers each running the batch query and then write2 on one
\* shared estimator, in every interleaving each caller's export emits exactly
\* the result of that caller's own batch call.
C13_ExportOwnResult ==
    \A c \in DOMAIN calls :
      (calls[c].pc = "exported" /\ calls[c].writable) =>
        /\ ~calls[c].raised
        /\ calls[c].lines = FormatLines(calls[c].gc)

\* What check_pwd(pwd) can return when it runs alone on the Model as loaded.
AloneResults(pwd) ==
    {check_pwd(dangerous_chunks, minus_log_probs, positions, pwd,
               calc_ml2p(loaded.converted, loaded.not_parsed, loaded.grammars,
                         loaded.terminals, pwd, order)) :
       order \in Orders(CandidateStructures(loaded.converted,
                                            loaded.not_parsed, pwd))}

\* C14: in any interleaving of concurrent check_pwd calls on one Model, each
\* call returns what it would return when run alone on the Model as loaded.
C14_SameAsAlone ==
    \A c \in DOMAIN calls :
      calls[c].pc = "done" =>
        check_pwd(dangerous_chunks, minus_log_probs, positions, calls[c].pwd,
                  [raised |-> calls[c].raised,
                   candidate |-> calls[c].candidate, cost |-> calls[c].cost])
          \in AloneResults(calls[c].pwd)

\* The number of entries of list equal to v.
Count(list, v) == Cardinality({i \in 1..Len(list) : list[i] = v})

\* C16: for any input list, in any order, the PositionTable is non-decreasing,
\* as long as the stored sample, and index-aligned with the sample sorted
\* ascending: entry i is the sum of the weights of the i smallest entries.
C16_PositionTable ==
    LET given == loaded.minus_log_prob_list
        n == Len(given)
    IN /\ Len(minus_log_probs) = n
       /\ Len(positions) = n
       /\ \A v \in SampleCosts : Count(minus_log_probs, v) = Count(given, v)
       /\ \A i \in 2..n : minus_log_probs[i - 1] <= minus_log_probs[i]
       /\ \A i \in 2..n : LeQ(positions[i - 1], positions[i])
       /\ \A i \in 1..n :
            EqQ(positions[i],
                AddQ(IF i = 1 THEN Rat(0) ELSE positions[i - 1],
                     [num |-> Pow2(minus_log_probs[i]), den |-> n]))

\* An estimator built from a list given out of order, and queried.
C16_Witness ==
    /\ ret.op = "ml2p2rank"
    /\ Len(loaded.minus_log_prob_list) = MaxSample
    /\ \E i \in 2..Len(loaded.minus_log_prob_list) :
         loaded.minus_log_prob_list[i - 1] > loaded.minus_log_prob_list[i]

\* C17: building the estimator from an empty sample list fails at
\* construction, so no estimator built from one exists to answer queries.
C17_EmptySampleFails ==
    /\ (ret.op = "MonteCarloLib" /\ loaded.minus_log_prob_list = <<>>)
         => (ret.raised /\ ~constructed)
    /\ constructed => loaded.minus_log_prob_list # <<>>
    /\ ret.op \in {"ml2p2rank", "to_dict"}
         => loaded.minus_log_prob_list # <<>>

C17_Witness ==
    /\ ret.op = "MonteCarloLib"
    /\ loaded.minus_log_prob_list = <<>>
    /\ ret.raised

\* The candidate set of the last scoring call.  An update in place leaves a
\* label's candidates what they were: an empty entry becomes the fallback set.
Candidates == CandidateStructures(converted, not_parsed, ret.pwd)

RECURSIVE ChunkCostSum(_, _, _)
\* The summed terminal costs of the chunks structure c cuts pwd into from
\* tag i on, for a fully matching c.
ChunkCostSum(c, pwd, i) ==
    IF i > Len(c) THEN 0
    ELSE terminals[c[i]][Slice(pwd, Offset(c, i), Offset(c, i) + c[i][2])]
           + ChunkCostSum(c, pwd, i + 1)

\* Grammar[c] plus the chunk costs, for a fully matching c.
TotalCost(c, pwd) == grammars[c] + ChunkCostSum(c, pwd, 1)

\* C18: score returns the minimum, over all candidates present in Grammar
\* whose every chunk is present in Terminals, of Grammar[s] plus the chunk
\* costs; a candidate absent from Grammar does not keep the others from being
\* scored.
C18_MinOverAll ==
    Returned =>
      LET M == {c \in Candidates : FullyMatches(c, ret.pwd)}
      IN M # {} =>
           /\ ret.segments \in M
           /\ ret.cost = TotalCost(ret.segments, ret.pwd)
           /\ \A c \in M : ret.cost <= TotalCost(c, ret.pwd)

\* C19: score returns the same (structure, cost) whatever the order in which
\* the candidate set is enumerated, also with ties for the minimum and with
\* candidates absent from Grammar.
C19_OrderIndependent ==
    Returned =>
      \A order \in Orders(Candidates) :
        LET r == calc_ml2p(converted, not_parsed, grammars, terminals,
                           ret.pwd, order)
        IN ~r.raised => (r.candidate = ret.segments /\ r.cost = ret.cost)

\* The candidates the loaded tables select for pwd: Converted[label] when
\* present and non-empty, otherwise NotParsed[total length].
Chosen(pwd) ==
    LET label == luds(pwd)
    IN IF label \in DOMAIN loaded.converted /\ loaded.converted[label] # {}
       THEN loaded.converted[label]
       ELSE Get(loaded.not_parsed, SumLens(label), {})

\* C20: the candidates scored are Converted[label] when that entry is present
\* and non-empty, NotParsed not consulted even if they all fail, otherwise
\* NotParsed[total length]; when there is no candidate or none completes, the
\* result is (label, SENTINEL).  (That the call returns at all is C1.)
C20_CandidateSelection ==
    Returned =>
      /\ ret.cost # log_max =>
           (ret.segments \in Chosen(ret.pwd)
              /\ FullyMatches(ret.segments, ret.pwd))
      /\ ret.cost = log_max => ret.segments = luds(ret.pwd)
      /\ (\A c \in Chosen(ret.pwd) : ~FullyMatches(c, ret.pwd))
           => (ret.segments = luds(ret.pwd) /\ ret.cost = log_max)

\* Every candidate of a non-empty Converted[label] fails while NotParsed holds
\* one that fully matches, and the call returned SENTINEL.
C20_Witness ==
    /\ Returned
    /\ luds(ret.pwd) \in DOMAIN loaded.converted
    /\ loaded.converted[luds(ret.pwd)] # {}
    /\ \E c \in Get(loaded.not_parsed, Len(ret.pwd), {}) :
         FullyMatches(c, ret.pwd)
    /\ ret.cost = log_max

\* C21: rank(cost) is position[idx-1], idx the number of sample entries less
\* than or equal to cost, so a cost equal to several tied entries gets the
\* position of the last of them, and is 1 when idx is 0; for the sample
\* [1,3,5,7], rank(5.0) = 10.5.
C21_RankIsPosition ==
    /\ ret.op = "ml2p2rank" =>
         LET idx == Cardinality({i \in 1..Len(minus_log_probs) :
                                   minus_log_probs[i] <= ret.minus_log_prob})
         IN IF idx = 0 THEN ret.rank = Rat(1)
            ELSE ret.rank = positions[idx]
    /\ \A sample \in ServingSamples :
         EqQ(ml2p2rank(MonteCarloLib(sample).minus_log_probs,
                       MonteCarloLib(sample).positions, 5),
             [num |-> 21, den |-> 2])

\* A cost equal to several tied sample entries was asked about.
C21_Witness ==
    /\ ret.op = "ml2p2rank"
    /\ \E i \in 2..Len(minus_log_probs) :
         /\ minus_log_probs[i] = ret.minus_log_prob
         /\ minus_log_probs[i - 1] = ret.minus_log_prob
         /\ i < Len(minus_log_probs)

RECURSIVE SumPow2(_, _)
\* The sum over j <= i of 2^sample[j].
SumPow2(sample, i) ==
    IF i = 0 THEN 0 ELSE Pow2(sample[i]) + SumPow2(sample, i - 1)

\* C22: for a sample of N entries, position[i] is the sum over j <= i of
\* 2^(sample[j] - log2(N)) over the ascending-sorted sample; the sample
\* [1,3,5,7] gives [0.5, 2.5, 10.5, 42.5].
C22_PositionSums ==
    /\ \A i \in 1..Len(positions) :
         EqQ(positions[i], [num |-> SumPow2(minus_log_probs, i),
                            den |-> Len(minus_log_probs)])
    /\ \A sample \in ServingSamples :
         LET pos == MonteCarloLib(sample).positions
         IN /\ Len(pos) = Len(sample)
            /\ EqQ(pos[1], [num |-> 1, den |-> 2])
            /\ EqQ(pos[2], [num |-> 5, den |-> 2])
            /\ EqQ(pos[3], [num |-> 21, den |-> 2])
            /\ EqQ(pos[4], [num |-> 85, den |-> 2])

\* An estimator built from MaxSample entries, not all equal, and queried.
C22_Witness ==
    /\ ret.op # "none"
    /\ Len(positions) = MaxSample
    /\ minus_log_probs[1] # minus_log_probs[Len(minus_log_probs)]

\* C23: to_dict keeps the first of each run of tied costs: the first sample
\* entry is emitted, an entry is emitted iff its cost differs by at least 1e-8
\* from the cost emitted before it, the emitted probs are strictly increasing,
\* and each emitted position comes from the position of the first sample
\* entry with that cost.
C23_DedupKeepsFirst ==
    ret.op = "to_dict" =>
      LET n == Len(minus_log_probs)
          vals == {minus_log_probs[i] : i \in 1..n}
          FirstWith(v) ==
              CHOOSE i \in 1..n :
                /\ minus_log_probs[i] = v
                /\ \A j \in 1..(i - 1) : minus_log_probs[j] # v
      IN /\ Len(ret.probs) = Cardinality(vals)
         /\ \A k \in 1..Len(ret.probs) : ret.probs[k] \in vals
         /\ n > 0 => ret.probs[1] = minus_log_probs[1]
         /\ \A k \in 2..Len(ret.probs) :
              /\ ret.probs[k] > ret.probs[k - 1]
              /\ (ret.probs[k] - ret.probs[k - 1]) * 100000000 >= 1
         /\ \A k \in 1..Len(ret.probs) :
              ret.positions[k] =
                Max(IntPart(positions[FirstWith(ret.probs[k])]),
                    (IF k = 1 THEN 0 ELSE ret.positions[k - 1]) + 1)

\* Tied entries were dropped, and an entry after them kept.
C23_Witness ==
    /\ ret.op = "to_dict"
    /\ Len(ret.probs) > 1
    /\ Len(ret.probs) < Len(minus_log_probs)
    /\ minus_log_probs[1] = minus_log_probs[2]

RECURSIVE SumAppearanceUpTo(_, _)
\* The occurrence counts of records 1..i of a batch result, summed.
SumAppearanceUpTo(list, i) ==
    IF i = 0 THEN 0 ELSE list[i].appearance + SumAppearanceUpTo(list, i - 1)

\* C24: the batch query returns a result for every item sequence, one whose
\* occurrence counts sum to zero included; each record's cumulative count is
\* the running sum of the occurrence counts up to it and its percentage
\* 100 * cumulative / total, the last record having the total and 100.
C24_BatchTotals ==
    ret.op = "ml2p_iter2gc" =>
      /\ ~ret.raised
      /\ LET n == Len(ret.gc)
             total == SumAppearanceUpTo(ret.gc, n)
         IN /\ \A i \in 1..n :
                 /\ ret.gc[i].cracked = SumAppearanceUpTo(ret.gc, i)
                 /\ EqQ(ret.gc[i].ratio,
                        [num |-> 100 * ret.gc[i].cracked, den |-> total])
            /\ n > 0 => (ret.gc[n].cracked = total
                           /\ EqQ(ret.gc[n].ratio, Rat(100)))

\* C29: with add1 unset and the items processed in ascending cost order, the
\* batch rank of every item is the ceiling of the single-query rank of its
\* cost; with any flags and any order, the batch rank is an integer at least
\* that ceiling.
C29_BatchVsSingle ==
    (ret.op = "ml2p_iter2gc" /\ ~ret.raised) =>
      LET n == Len(ret.gc)
          single(i) == Ceil(ml2p2rank(minus_log_probs, positions,
                                      ret.gc[i].mlp))
          ascending == \A i \in 2..n : ret.gc[i - 1].mlp <= ret.gc[i].mlp
      IN /\ \A i \in 1..n :
              ret.gc[i].rank \in Int /\ ret.gc[i].rank >= single(i)
         /\ (~ret.add1 /\ ascending) =>
              \A i \in 1..n : ret.gc[i].rank = single(i)

\* Items of one cost, in order, add1 unset, ranked alike.
C29_Witness ==
    /\ ret.op = "ml2p_iter2gc" /\ ~ret.raised /\ ~ret.add1
    /\ Len(ret.gc) = MaxItems
    /\ \A i \in 2..Len(ret.gc) :
         /\ ret.gc[i - 1].mlp = ret.gc[i].mlp
         /\ ret.gc[i - 1].rank = ret.gc[i].rank

\* The class of a character, by the set it is drawn from.
ClassOf(c) ==
    IF c \in UpperChars THEN "U"
    ELSE IF c \in LowerChars THEN "L"
    ELSE IF c \in DigitChars THEN "D" ELSE "S"

\* C30: for a non-empty password the Label luds produces is the canonical
\* run-length encoding: every Tag has a class in {U, L, D, S} and a run length
\* of at least 1, no two adjacent Tags have the same class, and the class of
\* the i-th character is the class of the Tag covering position i.
C30_CanonicalRuns ==
    (ret.op = "luds" /\ Len(ret.pwd) > 0) =>
      LET label == ret.label
      IN /\ \A k \in 1..Len(label) :
              label[k][1] \in {"U", "L", "D", "S"} /\ label[k][2] >= 1
         /\ \A k \in 2..Len(label) : label[k][1] # label[k - 1][1]
         /\ \A i \in 1..Len(ret.pwd) :
              \E k \in 1..Len(label) :
                /\ Offset(label, k) < i
                /\ i <= Offset(label, k) + label[k][2]
                /\ label[k][1] = ClassOf(ret.pwd[i])

\* A password of three classes or more with a run longer than one.
C30_Witness ==
    /\ ret.op = "luds"
    /\ Cardinality({ret.label[k][1] : k \in 1..Len(ret.label)}) > 2
    /\ Len(ret.pwd) > Len(ret.label)

\* C27: no sequence of scoring calls modifies NotParsed, Grammar or
\* Terminals: merging the fallback set into the candidate set leaves the set
\* stored in NotParsed as it was, whether or not the label has an entry in
\* Converted.
C27_FallbackKept ==
    /\ not_parsed = loaded.not_parsed
    /\ grammars = loaded.grammars
    /\ terminals = loaded.terminals

\* A call merged a non-empty fallback set into the label's stored set.
C27_Witness ==
    /\ Scored
    /\ converted # loaded.converted
    /\ Get(not_parsed, Len(ret.pwd), {}) # {}

\* Candidate c is in grammars below log_max, fully matches, and its total
\* stays below log_max.
ScoresBelowSentinel(c, pwd) ==
    /\ FullyMatches(c, pwd)
    /\ grammars[c] # log_max
    /\ TotalCost(c, pwd) < log_max

\* C28: the cost score returns never exceeds SENTINEL: a candidate whose
\* grammar cost is SENTINEL, or whose total reaches or exceeds it, counts as
\* unparsable, and (label, SENTINEL) is returned when no candidate has a total
\* below SENTINEL.
C28_CostAtMostSentinel ==
    Returned =>
      /\ ret.cost <= log_max
      /\ ret.cost < log_max => ScoresBelowSentinel(ret.segments, ret.pwd)
                                 /\ ret.cost = TotalCost(ret.segments, ret.pwd)
      /\ (\A c \in Candidates : ~ScoresBelowSentinel(c, ret.pwd))
           => (ret.segments = luds(ret.pwd) /\ ret.cost = log_max)

\* A fully matching candidate whose grammar cost is SENTINEL or whose total
\* reaches it, and SENTINEL returned.
C28_Witness ==
    /\ Returned
    /\ ret.cost = log_max
    /\ \E c \in Candidates :
         /\ FullyMatches(c, ret.pwd)
         /\ TotalCost(c, ret.pwd) >= log_max
         /\ grammars[c] < log_max

\* C25: write2 returns only if a batch call has completed since construction
\* and since the last write2 that returned; without such a batch call, as in
\* a second write2 in a row, it raises and writes nothing.
C25_SlotConsumed ==
    [][ret'.op = "write2" =>
         /\ ~ret'.raised => unwritten # <<>>
         /\ unwritten = <<>> => (ret'.raised /\ ret'.lines = <<>>)]_vars

\* A write2 on a writable stream that raised: no batch call was there to
\* export.
C25_Witness ==
    /\ ret.op = "write2"
    /\ ret.writable
    /\ ret.raised
    /\ unwritten = <<>>

\* C26: write2 on a stream that is not writable raises and leaves the stored
\* batch result as it was, so the write2 on a writable stream that follows
\* writes the whole result of the last batch call.
C26_FailedWriteKeepsResult ==
    [][/\ (ret'.op = "write2" /\ ~ret'.writable) =>
            (ret'.raised /\ ret'.lines = <<>> /\ gc' = gc)
       /\ (/\ ret.op = "write2" /\ ~ret.writable
           /\ ret'.op = "write2" /\ ret'.writable
           /\ unwritten # <<>>) =>
            (~ret'.raised /\ ret'.lines = FormatLines(unwritten[1]))]_vars

\* The stored result of a batch call with items, after a write2 on a stream
\* that is not writable.
C26_Witness ==
    /\ ret.op = "write2"
    /\ ~ret.writable
    /\ ret.raised
    /\ gc # <<>>
    /\ Len(gc[1]) > 0

====
